---------------------------- MODULE Spec2Model ----------------------------
(***************************************************************************)
(* Model of pytornado's CPACS loader (src/lib/pytornado/fileio/cpacs.py):  *)
(* the re-ordering of the four segment vertices in                         *)
(* get_aircraft_wing_segments, and load() with the functions it calls.     *)
(*                                                                         *)
(* Three specifications share the variables:                               *)
(*   SpecCanon  the four guarded reassignments of lines 243-250, applied   *)
(*              step by step to every quadruple of points of a small grid, *)
(*              and then applied a second time to their own output;        *)
(*   Spec       one call of load(aircraft, state, settings);               *)
(*   SpecWrite  one call of write_airfoil_files(settings, tixi), for every *)
(*              pair of coordinate lists of a profile within the bounds.   *)
(***************************************************************************)
EXTENDS Integers, Sequences, FiniteSets, TLC

\* ------------------------------------------------------------------ bounds
\* The grid the vertex quadruples are drawn from: x in 0..MaxX (chordwise),
\* y in 0..MaxY (spanwise), z in 0..MaxZ (vertical).
MaxX == 2
MaxY == 1
MaxZ == 1

\* --------------------------------------------------------- vertex re-order
\* A point is the list [x, y, z] returned by get_segment_mid_point; Python's
\* p[0], p[1], p[2] are p[1], p[2], p[3] here.
X(p) == p[1]
Y(p) == p[2]
Z(p) == p[3]

Points == (0..MaxX) \X (0..MaxY) \X (0..MaxZ)
Quads == [a : Points, b : Points, c : Points, d : Points]
Quad(p1, p2, p3, p4) == [a |-> p1, b |-> p2, c |-> p3, d |-> p4]

\* cpacs.py:243-244   if b[1] - a[1] < 0.0 or (b[1] == a[1] and b[2] - a[2] < 0.0)
Guard1(q) == Y(q.b) - Y(q.a) < 0 \/ (Y(q.b) = Y(q.a) /\ Z(q.b) - Z(q.a) < 0)
Step1(q) == IF Guard1(q) THEN [a |-> q.b, b |-> q.a, c |-> q.c, d |-> q.d] ELSE q

\* cpacs.py:245-246   if c[1] - d[1] < 0.0 or (c[1] == d[1] and c[2] - d[2] < 0.0)
Guard2(q) == Y(q.c) - Y(q.d) < 0 \/ (Y(q.c) = Y(q.d) /\ Z(q.c) - Z(q.d) < 0)
Step2(q) == IF Guard2(q) THEN [a |-> q.a, b |-> q.b, c |-> q.d, d |-> q.c] ELSE q

\* cpacs.py:247-248   if d[0] - a[0] < 0.0
Guard3(q) == X(q.d) - X(q.a) < 0
\* Step 3 with its comparison turned round (a[0] - d[0] < 0.0): a slip in the guard.
Step3Reversed(q) ==
    IF X(q.a) - X(q.d) < 0 THEN [a |-> q.d, b |-> q.b, c |-> q.c, d |-> q.a] ELSE q
Step3(q) == IF Guard3(q) THEN [a |-> q.d, b |-> q.b, c |-> q.c, d |-> q.a] ELSE q

\* cpacs.py:249-250   if c[0] - b[0] < 0.0
\* The comparison of step 4 turned round (b[0] - c[0] < 0.0): a slip in the guard.
Guard4Reversed(q) == X(q.b) - X(q.c) < 0
Guard4(q) == X(q.c) - X(q.b) < 0
\* Step 4 assigning c to b and leaving c: a slip in the reassignment.
Step4Duplicating(q) == IF Guard4(q) THEN [a |-> q.a, b |-> q.c, c |-> q.c, d |-> q.d] ELSE q
Step4(q) == IF Guard4(q) THEN [a |-> q.a, b |-> q.c, c |-> q.b, d |-> q.d] ELSE q

\* The four reassignments in the order of the code.
Canonicalize(q) == Step4(Step3(Step2(Step1(q))))

\* ------------------------------------------------------------------- state
VARIABLES
    \* the vertex re-order on its own
    raw, v, first, cstep,
    \* load(): the source file and the objects passed in
    src, aircraft, given,
    \* load(): position, outcome, and the handles of tixi and tigl
    pc, status, err, tixiOpen, tiglOpen, touched,
    \* get_aircraft_wings and get_aircraft_wing_segments: the locals
    num_wings, itWing, idx_wing, wing_uid,
    num_segments, itSegment, idx_segment, segment_uid, pts,
    \* get_aircraft_airfoils and write_airfoil_files: the locals, the files
    position, name_airfoil, num_airfoils, unnamed, itAirfoil, files,
    \* what the source declared, as the queries revealed it
    declared,
    \* the point queries sent to the kernel for the segment at hand, in order
    queried,
    \* the pointList of the profiles of the source, and the calls of np.savetxt
    pointList, written,
    \* ProjectPaths: _abs_paths, _groups, and how the last call ended
    abs_paths, groups, ended

canonVars == <<raw, v, first, cstep>>
loadVars ==
    <<src, aircraft, given, pc, status, err, tixiOpen, tiglOpen, touched,
      num_wings, itWing, idx_wing, wing_uid,
      num_segments, itSegment, idx_segment, segment_uid, pts,
      position, name_airfoil, num_airfoils, unnamed, itAirfoil, files, declared,
      queried, pointList, written>>
pathVars == <<abs_paths, groups, ended>>
vars == <<canonVars, loadVars, pathVars>>

\* ------------------------------------------------- the source and the kernel
\* Bounds of a source file: wings, segments of a wing, airfoil profiles.
MaxWings == 2
MaxSegments == 2
MaxAirfoils == 2

\* The CPACS file load() is given, as far as load() can tell one file from
\* another:
\*   exists          os.path.exists(cpacs_file)
\*   hasWings, wings the node XPATH_WINGS exists; how many wing children it has
\*   flipEta, flipXsi  the direction in which the kernel's eta and xsi run over
\*                   a segment (eta from tip to root, xsi from trailing to
\*                   leading edge, when flipped)
\*   noUidWing       the ordinal of the wing without a uID attribute (0: none)
\*   noUidSegment    the ordinal of the segments without a uID attribute
\*   emptySection    the section whose profile name is empty (0: none)
\* A file has one kind of irregularity at a time (flipped directions, missing
\* uID attributes, or an empty profile name): the code treats them apart.  Of
\* a file that does not exist nothing else is told.
SourceFiles ==
    { f \in [ exists : BOOLEAN, hasWings : BOOLEAN, wings : 0..MaxWings,
              flipEta : BOOLEAN, flipXsi : BOOLEAN,
              noUidWing : 0..MaxWings, noUidSegment : 0..MaxSegments,
              emptySection : 0..(MaxSegments + 1) ] :
        /\ ~f.hasWings => f.wings = 0
        /\ ~f.exists => (~f.hasWings /\ ~f.flipEta /\ ~f.flipXsi /\ f.emptySection = 0
                         /\ f.noUidWing = 0 /\ f.noUidSegment = 0)
        /\ (f.flipEta \/ f.flipXsi) =>
              (f.noUidWing = 0 /\ f.noUidSegment = 0 /\ f.emptySection = 0)
        /\ f.emptySection # 0 => (f.noUidWing = 0 /\ f.noUidSegment = 0) }

\* tigl.wingGetLowerPoint / wingGetUpperPoint(idx_wing, idx_segment, eta, xsi):
\* segment j of wing i spans y from j-1 to j; its leading edge is swept back by 1
\* from root to tip, its chord is 2, the wing lies at height 2*(i-1) and is 2
\* thick.
SurfacePoint(f, i, j, eta, xsi, dz) ==
    LET e == IF f.flipEta THEN 1 - eta ELSE eta
        x == IF f.flipXsi THEN 1 - xsi ELSE xsi
    IN  <<e + 2 * x, (j - 1) + e, 2 * (i - 1) + dz>>
WingGetLowerPoint(f, i, j, eta, xsi) == SurfacePoint(f, i, j, eta, xsi, 0 - 1)
WingGetUpperPoint(f, i, j, eta, xsi) == SurfacePoint(f, i, j, eta, xsi, 1)

\* cpacs.py:137   mid_point = [(l + u)/2.0 for l, u in zip(lower, upper)]
\* (the sums of the model's kernel are even, so the division is exact)
MidPoint(lower, upper) ==
    [k \in 1..3 |-> (lower[k] + upper[k]) \div 2]

\* cpacs.py:232-235   the (eta, xsi) of the four corners, in the order queried
\* The corners queried the other way round: a slip in the arguments.
CornersClockwise == <<<<0, 0>>, <<0, 1>>, <<1, 1>>, <<1, 0>>>>
Corners == <<<<0, 0>>, <<1, 0>>, <<1, 1>>, <<0, 1>>>>

\* tigl.wingGetInnerSectionAndElementIndex / ...Outer...: segment j lies between
\* section j and section j+1.
SectionIndex(j, pos) == IF pos = "inner" THEN j ELSE j + 1

\* tigl.wingGetProfileName, after parse_str: the name as get_aircraft_airfoils
\* tests it.
\* A string is the sequence of its pieces; "" is <<>>.
EmptyString == <<>>
ProfileNames == << <<"NACA0012">>, <<"NACA2412">> >>
ProfileName(f, i, section) ==
    IF section = f.emptySection THEN EmptyString ELSE ProfileNames[(section % 2) + 1]

\* tigl.wingGetSymmetry(idx_wing): an enumerated value, 0 (none) to 3.
WingGetSymmetry(f, i) == (2 * i) % 4

\* The uID attributes of the file, and the names used in their place.
\* cpacs.py:187   f'WING{idx_wing:02}'          (two digits, zero-padded)
\* cpacs.py:225   f"{wing_uid}_SEGMENT{idx_segment:02}"
Digit(n) == <<"0", "1", "2", "3", "4", "5", "6", "7", "8", "9">>[n + 1]
\* str(n) of a natural number, and the format specification 02 (at least two
\* digits, filled with zeros on the left)
RECURSIVE Decimal(_)
Decimal(n) == IF n < 10 THEN <<Digit(n)>> ELSE Decimal(n \div 10) \o <<Digit(n % 10)>>
Pad2(n) == IF n < 10 THEN <<"0">> \o Decimal(n) ELSE Decimal(n)
SourceWingUid(i) == <<"wing", Digit(i)>>
SourceSegmentUid(i, j) == <<"segment", Digit(i), Digit(j)>>
\* f'WING{idx_wing}', without the format specification: a slip in the name.
WingFallbackUnpadded(i) == <<"WING">> \o Decimal(i)
WingFallback(i) == <<"WING">> \o Pad2(i)
SegmentFallback(wuid, j) == wuid \o <<"_SEGMENT">> \o Pad2(j)

\* cpacs.py:181, 219, 309   range(lo, hi): lo, lo+1, ..., hi-1
PyRangeReversed(lo, hi) == [k \in 1..(hi - lo) |-> hi - k]
PyRange(lo, hi) == [k \in 1..(hi - lo) |-> lo + k - 1]

\* ------------------------------------------------------------ the aircraft
\* objects.model is not part of the sources at hand: the aircraft is the data
\* model of the specification (section 3): an identifier, the wings in
\* insertion order, each with its segments in insertion order, and the
\* reference quantities.  ord is the source ordinal an entry was made for.
NoUid == <<>>
NoValue == <<>>
EmptyAircraft == [uid |-> "None", wing |-> <<>>, refs |-> <<>>]

NewSegment(uid, j) ==
    [uid |-> uid, ord |-> j,
     vertices |-> [a |-> NoValue, b |-> NoValue, c |-> NoValue, d |-> NoValue],
     airfoils |-> [inner |-> NoValue, outer |-> NoValue]]
NewWing(uid, i) == [uid |-> uid, ord |-> i, symmetry |-> 0, segment |-> <<>>]

\* aircraft.reset()
Reset(ac) == EmptyAircraft
\* aircraft.add_wing(wing_uid)
AddWing(ac, uid, i) == [ac EXCEPT !.wing = Append(@, NewWing(uid, i))]
\* aircraft.wing[wing_uid]
WingAt(ac, uid) == CHOOSE k \in 1..Len(ac.wing) : ac.wing[k].uid = uid
\* aircraft.wing[wing_uid].add_segment(segment_uid)
AddSegment(ac, wuid, uid, j) ==
    [ac EXCEPT !.wing[WingAt(ac, wuid)].segment = Append(@, NewSegment(uid, j))]
\* aircraft.wing[wing_uid].segment[segment_uid]
SegmentAt(w, uid) == CHOOSE k \in 1..Len(w.segment) : w.segment[k].uid = uid

\* cpacs.py:192   aircraft.wing[wing_uid].symmetry = ...
SetSymmetry(ac, wuid, sym) == [ac EXCEPT !.wing[WingAt(ac, wuid)].symmetry = sym]
\* cpacs.py:255-258   ...segment[segment_uid].vertices['a'] = a, and b, c, d
SetVertices(ac, wuid, suid, q) ==
    LET w == WingAt(ac, wuid) IN
    [ac EXCEPT !.wing[w].segment[SegmentAt(ac.wing[w], suid)].vertices = q]
\* cpacs.py:295   ...segment[segment_uid].airfoils[position] = file_airfoil
SetAirfoil(ac, wuid, suid, pos, path) ==
    LET w == WingAt(ac, wuid) IN
    [ac EXCEPT !.wing[w].segment[SegmentAt(ac.wing[w], suid)].airfoils[pos] = path]
\* cpacs.py:343-355   aircraft.refs[key] = value
SetRef(ac, key, value) ==
    [ac EXCEPT !.refs = [k \in (DOMAIN @) \cup {key} |-> IF k = key THEN value ELSE @[k]]]

\* settings.dirs['airfoils'], and os.path.join(dir, f"blade.{name}")
AirfoilsDir == "airfoils"
\* The path without the prefix blade.: a slip in the file name.
AirfoilPathBare(name) == <<AirfoilsDir, "/">> \o name
AirfoilPath(name) == <<AirfoilsDir, "/", "blade.">> \o name

\* ------------------------------------------------------ the airfoil files
\* The pointList of a profile, as np.fromstring(text, sep=';') returns its x
\* and its z: two arrays of numbers.  A coordinate is counted in tenths
\* (12 is 1.2), which '%+.7f' prints without rounding.
MaxPoints == 2
CoordValues == {0 - 12, 0, 105}
CoordLists == UNION { [1..n -> CoordValues] : n \in 0..MaxPoints }
PointLists == [x : CoordLists, z : CoordLists]
\* x = 0;1;2 and z = 0;0.1;0.2
LoadPointList == [x |-> <<0, 10, 20>>, z |-> <<0, 1, 2>>]

\* cpacs.py:67   COORD_FORMAT = '%+.7f': the sign, the integer part, a point,
\* seven decimals
Abs(t) == IF t < 0 THEN 0 - t ELSE t
\* '%.7f', without the flag +: a slip in the format.
FormatCoordUnsigned(t) ==
    Decimal(Abs(t) \div 10) \o <<".", Digit(Abs(t) % 10), "0", "0", "0", "0", "0", "0">>
FormatCoord(t) ==
    <<IF t < 0 THEN "-" ELSE "+">> \o Decimal(Abs(t) \div 10)
        \o <<".", Digit(Abs(t) % 10), "0", "0", "0", "0", "0", "0">>

\* cpacs.py:323   np.transpose([coords_x, coords_z]) of two arrays of one
\* length: row k is (x[k], z[k])
Transpose(x, z) == [k \in 1..Len(x) |-> <<x[k], z[k]>>]

\* cpacs.py:326   np.savetxt(file, coords, header=name, fmt=COORD_FORMAT): the
\* header after the comment mark '# ' (the default of comments), then one line
\* for each row, the columns separated by ' ' (the default of delimiter).
\* A line is the sequence of its pieces.
CommentMark == "# "
Delimiter == " "
HeaderLine(name) == <<CommentMark>> \o name
RowLine(row) == FormatCoord(row[1]) \o <<Delimiter>> \o FormatCoord(row[2])
SaveTxt(name, coords) ==
    <<HeaderLine(name)>> \o [k \in 1..Len(coords) |-> RowLine(coords[k])]

\* An aircraft that an earlier load filled: one wing of one segment, and the
\* reference quantities.
PriorAircraft ==
    [uid |-> "PRIOR",
     wing |-> << [uid |-> <<"wing", "0">>, ord |-> 1, symmetry |-> 2,
                  segment |-> << [uid |-> <<"segment", "0", "0">>, ord |-> 1,
                                  vertices |-> [a |-> <<5, 5, 5>>, b |-> <<6, 6, 5>>,
                                                c |-> <<8, 6, 5>>, d |-> <<7, 5, 5>>],
                                  airfoils |-> [inner |-> AirfoilPath(<<"PRIOR">>),
                                                outer |-> AirfoilPath(<<"PRIOR">>)]] >>] >>,
     refs |-> [gcenter |-> <<9, 9, 9>>, rcenter |-> <<9, 9, 9>>,
               area |-> 9, span |-> 9, chord |-> 9]]

\* The locals of load() before load() runs.
LocalsUnset ==
    /\ num_wings = 0 /\ itWing = 0 /\ idx_wing = 0 /\ wing_uid = NoUid
    /\ num_segments = 0 /\ itSegment = 0 /\ idx_segment = 0 /\ segment_uid = NoUid
    /\ pts = <<>> /\ position = "inner" /\ name_airfoil = <<"unset">>
    /\ num_airfoils = 0 /\ unnamed = 0 /\ itAirfoil = 0
    /\ declared = <<>> /\ queried = <<>> /\ written = <<>>

\* ------------------------------------------------------------ ProjectPaths
\* objects/settings.py: a path is absolute or relative, and has its parts.
\* settings.py:214-225   PurePath(path1).joinpath(path2): an absolute path2
\* replaces path1.
PathOf(absolute, parts) == [absolute |-> absolute, parts |-> parts]
join_paths(path1, path2) ==
    IF path2.absolute THEN path2
    ELSE PathOf(path1.absolute, path1.parts \o path2.parts)

\* settings.py:59, 62-91, 117   a new ProjectPaths(root_dir): the root is
\* registered, no group exists
UID_ROOT == "root"
RootDir == PathOf(TRUE, <<"project">>)
NewAbsPaths == [u \in {UID_ROOT} |-> RootDir]
NewGroups == <<>>

\* The arguments of the calls: UIDs, paths, and uid_groups (None, a str, a
\* list or a tuple of str, or a value of another type).
Uids == {UID_ROOT, "dir", "file"}
PathArgs == {PathOf(FALSE, <<"a">>), PathOf(FALSE, <<"b", "c">>), PathOf(TRUE, <<"tmp">>)}
GroupArgs ==
    { [kind |-> "None", text |-> "", items |-> <<>>],
      [kind |-> "str", text |-> "g", items |-> <<>>],
      [kind |-> "list", text |-> "", items |-> <<"g", "h">>],
      [kind |-> "tuple", text |-> "", items |-> <<"h">>],
      [kind |-> "int", text |-> "", items |-> <<>>] }

\* settings.py:119-123, 186-212   self.root: the path registered for UID_ROOT
\* (it holds no {counter})
RootOf(paths) == paths[UID_ROOT]

\* settings.py:165-166   self._groups[uid_group].append(uid) for each group, on
\* a defaultdict(list)
RECURSIVE AppendToGroups(_, _, _)
AppendToGroups(gr, items, uid) ==
    IF items = <<>> THEN gr
    ELSE LET g == Head(items)
             now == IF g \in DOMAIN gr THEN gr[g] ELSE <<>>
         IN  AppendToGroups([k \in (DOMAIN gr) \cup {g} |->
                                IF k = g THEN Append(now, uid) ELSE gr[k]],
                            Tail(items), uid)

\* settings.py:136-166   add_path(uid, path, uid_groups, is_absolute): the two
\* tables and the outcome of the call
add_path(paths, gr, uid, path, uid_groups, is_absolute) ==
    IF uid \in DOMAIN paths
    THEN [abs_paths |-> paths, groups |-> gr, outcome |-> "ValueError"]
    ELSE LET full == IF ~is_absolute THEN join_paths(RootOf(paths), path) ELSE path
             stored == [u \in (DOMAIN paths) \cup {uid} |->
                            IF u = uid THEN full ELSE paths[u]]
         IN  IF uid_groups.kind = "None"
             THEN [abs_paths |-> stored, groups |-> gr, outcome |-> "returned"]
             ELSE IF uid_groups.kind \notin {"str", "list", "tuple"}
             THEN [abs_paths |-> stored, groups |-> gr, outcome |-> "TypeError"]
             ELSE LET items == IF uid_groups.kind = "str"
                               THEN <<uid_groups.text>> ELSE uid_groups.items
                  IN  [abs_paths |-> stored, groups |-> AppendToGroups(gr, items, uid),
                       outcome |-> "returned"]

\* settings.py:168-184   add_subpath(uid_parent, uid, path, uid_groups)
add_subpath(paths, gr, uid_parent, uid, path, uid_groups) ==
    IF uid_parent \notin DOMAIN paths
    THEN [abs_paths |-> paths, groups |-> gr, outcome |-> "ValueError"]
    ELSE add_path(paths, gr, uid, join_paths(paths[uid_parent], path), uid_groups, FALSE)

\* The ProjectPaths variables of the specifications that do not call it.
IdlePaths == abs_paths = NewAbsPaths /\ groups = NewGroups /\ ended = "none"

\* The load variables of the specification that only re-orders vertices.
IdleLoad ==
    /\ src = [exists |-> FALSE, hasWings |-> FALSE, wings |-> 0,
              flipEta |-> FALSE, flipXsi |-> FALSE,
              noUidWing |-> 0, noUidSegment |-> 0, emptySection |-> 0]
    /\ aircraft = EmptyAircraft /\ given = EmptyAircraft
    /\ pc = "idle" /\ status = "idle" /\ err = "none"
    /\ tixiOpen = FALSE /\ tiglOpen = FALSE /\ touched = FALSE
    /\ files = {}
    /\ pointList = LoadPointList
    /\ LocalsUnset

\* raw: the quadruple the kernel returned; v: the local variables a, b, c, d;
\* cstep: how many of the reassignments have run (4: the vertices are stored,
\* 5..8: the same four statements run again on the stored vertices);
\* first: the vertices stored after the first application.
InitCanon ==
    /\ raw \in Quads
    /\ v = raw
    /\ first = raw
    /\ cstep = 0
    /\ IdleLoad
    /\ IdlePaths

ApplyStep1 ==
    /\ cstep \in {0, 4}
    /\ v' = Step1(v)
    /\ cstep' = cstep + 1
    /\ UNCHANGED <<raw, first, loadVars, pathVars>>

ApplyStep2 ==
    /\ cstep \in {1, 5}
    /\ v' = Step2(v)
    /\ cstep' = cstep + 1
    /\ UNCHANGED <<raw, first, loadVars, pathVars>>

ApplyStep3 ==
    /\ cstep \in {2, 6}
    /\ v' = Step3(v)
    /\ cstep' = cstep + 1
    /\ UNCHANGED <<raw, first, loadVars, pathVars>>

ApplyStep4 ==
    /\ cstep \in {3, 7}
    /\ v' = Step4(v)
    /\ cstep' = cstep + 1
    /\ first' = IF cstep = 3 THEN Step4(v) ELSE first
    /\ UNCHANGED <<raw, loadVars, pathVars>>

NextCanon == ApplyStep1 \/ ApplyStep2 \/ ApplyStep3 \/ ApplyStep4

SpecCanon == InitCanon /\ [][NextCanon]_vars

\* ------------------------------------------------------------------ load()
\* One call load(aircraft, state, settings): the aircraft passed in is new or
\* was filled by an earlier load.
Init ==
    /\ raw = Quad(<<0, 0, 0>>, <<0, 0, 0>>, <<0, 0, 0>>, <<0, 0, 0>>)
    /\ v = raw /\ first = raw /\ cstep = 0
    /\ src \in SourceFiles
    /\ aircraft \in {EmptyAircraft, PriorAircraft}
    /\ given = aircraft
    /\ pc = "exists" /\ status = "running" /\ err = "none"
    /\ tixiOpen = FALSE /\ tiglOpen = FALSE /\ touched = FALSE
    /\ files = {}
    /\ pointList = LoadPointList
    /\ LocalsUnset
    /\ IdlePaths

Running(at) == status = "running" /\ pc = at

\* An exception leaves load(): nothing in load() or below it catches it, and
\* there is no finally clause.
Raise(e) == status' = "raised" /\ err' = e /\ UNCHANGED pc
Goto(to) == pc' = to /\ UNCHANGED <<status, err>>

wingLocals == <<num_wings, itWing, idx_wing, wing_uid>>
segmentLocals == <<num_segments, itSegment, idx_segment, segment_uid, pts, queried>>
airfoilLocals == <<position, name_airfoil, num_airfoils, unnamed, itAirfoil>>
handles == <<tixiOpen, tiglOpen, touched>>

\* cpacs.py:368-373   if not os.path.exists(cpacs_file): raise FileNotFoundError
CheckExistsSkipped ==
    /\ Running("exists")
    /\ Goto("open_tixi")
    /\ UNCHANGED <<canonVars, pathVars, pointList, src, aircraft, given, handles, wingLocals,
                   segmentLocals, airfoilLocals, files, written, declared>>
CheckExists ==
    /\ Running("exists")
    /\ IF ~src.exists THEN Raise("FileNotFoundError") ELSE Goto("open_tixi")
    /\ UNCHANGED <<canonVars, pathVars, pointList, src, aircraft, given, handles, wingLocals,
                   segmentLocals, airfoilLocals, files, written, declared>>

\* cpacs.py:70-92, 375   tixi = open_tixi(cpacs_file)
OpenTixi ==
    /\ Running("open_tixi")
    /\ \E installed \in BOOLEAN, opens \in BOOLEAN :
        IF ~installed
        THEN Raise("ModuleNotFoundError") /\ UNCHANGED handles
        ELSE /\ touched' = TRUE
             /\ IF opens
                THEN tixiOpen' = TRUE /\ Goto("open_tigl")
                ELSE Raise("TixiException") /\ UNCHANGED tixiOpen
             /\ UNCHANGED tiglOpen
    /\ UNCHANGED <<canonVars, pathVars, pointList, src, aircraft, given, wingLocals,
                   segmentLocals, airfoilLocals, files, written, declared>>

\* cpacs.py:95-120, 376   tigl = open_tigl(tixi)
OpenTigl ==
    /\ Running("open_tigl")
    /\ \E installed \in BOOLEAN, opens \in BOOLEAN :
        IF ~installed
        THEN Raise("ModuleNotFoundError") /\ UNCHANGED handles
        ELSE /\ IF opens
                THEN tiglOpen' = TRUE /\ Goto("reset")
                ELSE Raise("TiglException") /\ UNCHANGED tiglOpen
             /\ UNCHANGED <<tixiOpen, touched>>
    /\ UNCHANGED <<canonVars, pathVars, pointList, src, aircraft, given, wingLocals,
                   segmentLocals, airfoilLocals, files, written, declared>>

\* cpacs.py:379   aircraft.reset()
ResetAircraft ==
    /\ Running("reset")
    /\ aircraft' = Reset(aircraft)
    /\ Goto("name")
    /\ UNCHANGED <<canonVars, pathVars, pointList, src, given, handles, wingLocals,
                   segmentLocals, airfoilLocals, files, written, declared>>

\* cpacs.py:141-157, 382   get_aircraft_name(aircraft, tixi)
GetAircraftName ==
    /\ Running("name")
    /\ \E hasModel \in BOOLEAN, hasUid \in BOOLEAN :
        IF hasModel
        THEN IF hasUid
             THEN aircraft' = [aircraft EXCEPT !.uid = "aircraft"] /\ Goto("wings")
             ELSE Raise("TixiException") /\ UNCHANGED aircraft
        ELSE aircraft' = [aircraft EXCEPT !.uid = "NAME_NOT_FOUND"] /\ Goto("wings")
    /\ UNCHANGED <<canonVars, pathVars, pointList, src, given, handles, wingLocals,
                   segmentLocals, airfoilLocals, files, written, declared>>

\* The end of one pass of the loop over the wings (cpacs.py:181): the next wing,
\* or on to write_airfoil_files (cpacs.py:384).
\* The same, leaving get_aircraft_wings for get_aircraft_refs: load() without
\* its call of write_airfoil_files.
NextWingSkipsFiles ==
    IF itWing < Len(PyRange(1, num_wings + 1))
    THEN itWing' = itWing + 1 /\ Goto("wing")
    ELSE UNCHANGED itWing /\ Goto("refs")
NextWing ==
    IF itWing < Len(PyRange(1, num_wings + 1))
    THEN itWing' = itWing + 1 /\ Goto("wing")
    ELSE UNCHANGED itWing /\ Goto("airfoil_files")

\* cpacs.py:170-181   get_aircraft_wings: the wings node, the number of wings
GetAircraftWings ==
    /\ Running("wings")
    /\ IF ~src.hasWings
       THEN Raise("ValueError") /\ UNCHANGED <<num_wings, itWing>>
       ELSE /\ num_wings' = src.wings
            /\ IF Len(PyRange(1, src.wings + 1)) >= 1
               THEN itWing' = 1 /\ Goto("wing")
               ELSE UNCHANGED itWing /\ Goto("airfoil_files")
    /\ UNCHANGED <<canonVars, pathVars, pointList, src, aircraft, given, handles, idx_wing, wing_uid,
                   segmentLocals, airfoilLocals, files, written, declared>>

\* cpacs.py:181-191   one wing: its uID or the fallback name, add_wing
BeginWing ==
    /\ Running("wing")
    /\ LET i == PyRange(1, num_wings + 1)[itWing]
           uid == IF i = src.noUidWing THEN WingFallback(i) ELSE SourceWingUid(i)
       IN  /\ idx_wing' = i
           /\ wing_uid' = uid
           /\ aircraft' = AddWing(aircraft, uid, i)
    /\ Goto("symmetry")
    /\ UNCHANGED <<canonVars, pathVars, pointList, src, given, handles, num_wings, itWing,
                   segmentLocals, airfoilLocals, files, written, declared>>

\* cpacs.py:192   aircraft.wing[wing_uid].symmetry = tigl.wingGetSymmetry(idx_wing)
GetWingSymmetry ==
    /\ Running("symmetry")
    /\ \E answers \in BOOLEAN :
        IF answers
        THEN /\ aircraft' = SetSymmetry(aircraft, wing_uid, WingGetSymmetry(src, idx_wing))
             /\ Goto("segments")
        ELSE Raise("TiglException") /\ UNCHANGED aircraft
    /\ UNCHANGED <<canonVars, pathVars, pointList, src, given, handles, wingLocals,
                   segmentLocals, airfoilLocals, files, written, declared>>

\* cpacs.py:209-219   get_aircraft_wing_segments: the segments node, the number
\* of segments of this wing
GetWingSegments ==
    /\ Running("segments")
    /\ \E hasSegments \in BOOLEAN, m \in 0..MaxSegments :
        /\ ~hasSegments => m = 0
        /\ declared' = Append(declared, m)
        /\ IF ~hasSegments
           THEN Raise("ValueError") /\ UNCHANGED <<num_segments, itSegment, itWing>>
           ELSE /\ num_segments' = m
                /\ IF Len(PyRange(1, m + 1)) >= 1
                   THEN itSegment' = 1 /\ Goto("segment") /\ UNCHANGED itWing
                   ELSE UNCHANGED itSegment /\ NextWing
    /\ UNCHANGED <<canonVars, pathVars, pointList, src, aircraft, given, handles, num_wings, idx_wing,
                   wing_uid, idx_segment, segment_uid, pts, queried, airfoilLocals, files, written>>

\* cpacs.py:219-229   one segment: its uID or the fallback name, add_segment
BeginSegment ==
    /\ Running("segment")
    /\ LET j == PyRange(1, num_segments + 1)[itSegment]
           uid == IF j = src.noUidSegment
                  THEN SegmentFallback(wing_uid, j)
                  ELSE SourceSegmentUid(idx_wing, j)
       IN  /\ idx_segment' = j
           /\ segment_uid' = uid
           /\ aircraft' = AddSegment(aircraft, wing_uid, uid, j)
    /\ pts' = <<>>
    /\ queried' = <<>>
    /\ Goto("mid_point")
    /\ UNCHANGED <<canonVars, pathVars, pointList, src, given, handles, wingLocals, num_segments,
                   itSegment, airfoilLocals, files, written, declared>>

\* cpacs.py:123-138, 232-235   a, b, c, d = get_segment_mid_point(...), one call
\* each: the lower point, the upper point, their mean
Query(surface, i, j, eta, xsi) ==
    [surface |-> surface, wing |-> i, segment |-> j, eta |-> eta, xsi |-> xsi]
GetSegmentMidPoint ==
    /\ Running("mid_point")
    /\ LET eta == Corners[Len(pts) + 1][1]
           xsi == Corners[Len(pts) + 1][2]
           lower == Query("lower", idx_wing, idx_segment, eta, xsi)
           upper == Query("upper", idx_wing, idx_segment, eta, xsi)
       IN \E answer \in {"both", "lower fails", "upper fails"} :
            /\ queried' = IF answer = "lower fails"
                          THEN Append(queried, lower)
                          ELSE queried \o <<lower, upper>>
            /\ IF answer = "both"
               THEN /\ pts' = Append(pts,
                        MidPoint(WingGetLowerPoint(src, idx_wing, idx_segment, eta, xsi),
                                 WingGetUpperPoint(src, idx_wing, idx_segment, eta, xsi)))
                    /\ IF Len(pts) = 3 THEN Goto("vertices") ELSE Goto("mid_point")
               ELSE Raise("TiglException") /\ UNCHANGED pts
    /\ UNCHANGED <<canonVars, pathVars, pointList, src, aircraft, given, handles, wingLocals, num_segments,
                   itSegment, idx_segment, segment_uid, airfoilLocals, files, written, declared>>

\* cpacs.py:240-258   re-order the vertices and store them on the segment
StoreVertices ==
    /\ Running("vertices")
    /\ aircraft' = SetVertices(aircraft, wing_uid, segment_uid,
                               Canonicalize(Quad(pts[1], pts[2], pts[3], pts[4])))
    /\ position' = "inner"
    /\ Goto("airfoil")
    /\ UNCHANGED <<canonVars, pathVars, pointList, src, given, handles, wingLocals, segmentLocals,
                   name_airfoil, num_airfoils, unnamed, itAirfoil, files, written, declared>>

\* The end of one pass of the loop over the segments (cpacs.py:219).
NextSegment ==
    IF itSegment < Len(PyRange(1, num_segments + 1))
    THEN itSegment' = itSegment + 1 /\ Goto("segment") /\ UNCHANGED itWing
    ELSE UNCHANGED itSegment /\ NextWing

\* cpacs.py:277-295   get_aircraft_airfoils, one position: the section and
\* element index, the profile name, the path.  Line 291 raises ValueError(msg),
\* and no msg is defined (the message is err_msg): Python raises NameError.
EmptyNameError == "NameError"
GetAircraftAirfoil ==
    /\ Running("airfoil")
    /\ \E answer \in {"both", "index fails", "name fails"} :
        IF answer = "both"
        THEN LET name == ProfileName(src, idx_wing, SectionIndex(idx_segment, position))
             IN /\ name_airfoil' = name
                /\ IF name = EmptyString
                   THEN /\ Raise(EmptyNameError)
                        /\ UNCHANGED <<aircraft, position, itSegment, itWing>>
                   ELSE /\ aircraft' = SetAirfoil(aircraft, wing_uid, segment_uid,
                                                  position, AirfoilPath(name))
                        /\ IF position = "inner"
                           THEN /\ position' = "outer"
                                /\ Goto("airfoil")
                                /\ UNCHANGED <<itSegment, itWing>>
                           ELSE UNCHANGED position /\ NextSegment
        ELSE /\ Raise("TiglException")
             /\ UNCHANGED <<aircraft, position, name_airfoil, itSegment, itWing>>
    /\ UNCHANGED <<canonVars, pathVars, pointList, src, given, handles, num_wings, idx_wing, wing_uid,
                   num_segments, idx_segment, segment_uid, pts, queried,
                   num_airfoils, unnamed, itAirfoil, files, written, declared>>

\* cpacs.py:307-309   write_airfoil_files: the number of profiles (u: the
\* ordinal of the profile of the file that has no name element; 0: none)
CountAirfoils ==
    /\ Running("airfoil_files")
    /\ \E hasProfiles \in BOOLEAN, k \in 0..MaxAirfoils, u \in 0..MaxAirfoils :
        /\ ~hasProfiles => k = 0
        /\ u <= k
        /\ IF ~hasProfiles
           THEN Raise("TixiException") /\ UNCHANGED <<num_airfoils, unnamed, itAirfoil>>
           ELSE /\ num_airfoils' = k
                /\ unnamed' = u
                /\ IF Len(PyRange(1, k + 1)) >= 1
                   THEN itAirfoil' = 1 /\ Goto("airfoil_file")
                   ELSE UNCHANGED itAirfoil /\ Goto("refs")
    /\ UNCHANGED <<canonVars, pathVars, pointList, src, aircraft, given, handles, wingLocals,
                   segmentLocals, position, name_airfoil, files, written, declared>>

\* cpacs.py:309-326   one profile: its name or the fallback name, its
\* coordinates, np.savetxt.  With an x and a z of different lengths the list
\* [coords_x, coords_z] is ragged: numpy from 1.24 on raises ValueError in
\* np.transpose, an older numpy makes an array of two objects of it, and
\* np.savetxt opens the file, writes the header and raises TypeError on the
\* first row.
AirfoilFallback(i) == <<"AIRFOIL">> \o Pad2(i)
SourceProfileName(i) == <<"profile", Digit(i)>>
WriteAirfoilFile ==
    /\ Running("airfoil_file")
    /\ LET i == PyRange(1, num_airfoils + 1)[itAirfoil]
           name == IF i = unnamed THEN AirfoilFallback(i) ELSE SourceProfileName(i)
           file_airfoil == AirfoilPath(name)
           coords_x == pointList.x
           coords_z == pointList.z
           Written(lines) ==
               /\ files' = files \cup {file_airfoil}
               /\ written' = Append(written,
                                [ord |-> i, path |-> file_airfoil, lines |-> lines])
       IN
       \E outcome \in {"written", "no coordinates", "not written"},
          numpy \in {"from 1.24", "before 1.24"} :
        CASE outcome = "no coordinates" ->
                Raise("TixiException") /\ UNCHANGED <<files, written, itAirfoil>>
          [] outcome = "not written" ->
                Raise("OSError") /\ UNCHANGED <<files, written, itAirfoil>>
          [] outcome = "written" /\ Len(coords_x) # Len(coords_z) ->
                IF numpy = "from 1.24"
                THEN Raise("ValueError") /\ UNCHANGED <<files, written, itAirfoil>>
                ELSE /\ Raise("TypeError")
                     /\ Written(<<HeaderLine(name)>>)
                     /\ UNCHANGED itAirfoil
          [] outcome = "written" /\ Len(coords_x) = Len(coords_z) ->
                /\ Written(SaveTxt(name, Transpose(coords_x, coords_z)))
                /\ IF itAirfoil < Len(PyRange(1, num_airfoils + 1))
                   THEN itAirfoil' = itAirfoil + 1 /\ Goto("airfoil_file")
                   ELSE UNCHANGED itAirfoil /\ Goto("refs")
    /\ UNCHANGED <<canonVars, pathVars, pointList, src, aircraft, given, handles, wingLocals,
                   segmentLocals, position, name_airfoil, num_airfoils, unnamed, declared>>

\* cpacs.py:329-355   get_aircraft_refs: the paths are read in the order
\* point/x, point/y, point/z (gcenter), the same three again (rcenter), area,
\* length (span), length (chord); the first one missing raises.
RefPoints == {<<1, 2, 3>>}
RefAreas == {7}
RefLengths == {2, 5}
Zeros3 == <<0, 0, 0>>
\* The same with refs['chord'] read from XPATH_REFS + '/area': a slip in the path.
RefsReadChordFromArea(ac, missing, p, area, length) ==
    LET g0 == SetRef(ac, "gcenter", Zeros3)
        gx == SetRef(ac, "gcenter", <<p[1], 0, 0>>)
        gy == SetRef(ac, "gcenter", <<p[1], p[2], 0>>)
        gz == SetRef(ac, "gcenter", p)
        rz == SetRef(gz, "rcenter", p)
        ar == SetRef(rz, "area", area)
        sp == SetRef(ar, "span", length)
    IN  CASE missing = "x" -> g0
          [] missing = "y" -> gx
          [] missing = "z" -> gy
          [] missing = "area" -> rz
          [] missing = "length" -> ar
          [] OTHER -> SetRef(sp, "chord", area)
RefsRead(ac, missing, p, area, length) ==
    LET g0 == SetRef(ac, "gcenter", Zeros3)
        gx == SetRef(ac, "gcenter", <<p[1], 0, 0>>)
        gy == SetRef(ac, "gcenter", <<p[1], p[2], 0>>)
        gz == SetRef(ac, "gcenter", p)
        rz == SetRef(gz, "rcenter", p)
        ar == SetRef(rz, "area", area)
        sp == SetRef(ar, "span", length)
    IN  CASE missing = "x" -> g0
          [] missing = "y" -> gx
          [] missing = "z" -> gy
          [] missing = "area" -> rz
          [] missing = "length" -> ar
          [] OTHER -> SetRef(sp, "chord", length)
GetAircraftRefs ==
    /\ Running("refs")
    /\ \E missing \in {"none", "x", "y", "z", "area", "length"},
          p \in RefPoints, area \in RefAreas, length \in RefLengths :
        /\ aircraft' = RefsRead(aircraft, missing, p, area, length)
        /\ IF missing = "none" THEN Goto("close") ELSE Raise("TixiException")
    /\ UNCHANGED <<canonVars, pathVars, pointList, src, given, handles, wingLocals,
                   segmentLocals, airfoilLocals, files, written, declared>>

\* cpacs.py:387   tixi.close(), and load() returns
CloseTixi ==
    /\ Running("close")
    /\ tixiOpen' = FALSE
    /\ status' = "returned"
    /\ pc' = "end"
    /\ UNCHANGED <<canonVars, pathVars, pointList, src, aircraft, given, err, tiglOpen, touched, wingLocals,
                   segmentLocals, airfoilLocals, files, written, declared>>

Next ==
    \/ CheckExists
    \/ OpenTixi
    \/ OpenTigl
    \/ ResetAircraft
    \/ GetAircraftName
    \/ GetAircraftWings
    \/ BeginWing
    \/ GetWingSymmetry
    \/ GetWingSegments
    \/ BeginSegment
    \/ GetSegmentMidPoint
    \/ StoreVertices
    \/ GetAircraftAirfoil
    \/ CountAirfoils
    \/ WriteAirfoilFile
    \/ GetAircraftRefs
    \/ CloseTixi

Spec == Init /\ [][Next]_vars

\* -------------------------------------------------- write_airfoil_files()
\* One call write_airfoil_files(settings, tixi) on an open document, for every
\* pointList of the bounds.
InitWrite ==
    /\ raw = Quad(<<0, 0, 0>>, <<0, 0, 0>>, <<0, 0, 0>>, <<0, 0, 0>>)
    /\ v = raw /\ first = raw /\ cstep = 0
    /\ src = [exists |-> TRUE, hasWings |-> TRUE, wings |-> 0,
              flipEta |-> FALSE, flipXsi |-> FALSE,
              noUidWing |-> 0, noUidSegment |-> 0, emptySection |-> 0]
    /\ aircraft = EmptyAircraft /\ given = EmptyAircraft
    /\ pc = "airfoil_files" /\ status = "running" /\ err = "none"
    /\ tixiOpen = TRUE /\ tiglOpen = TRUE /\ touched = TRUE
    /\ files = {}
    /\ pointList \in PointLists
    /\ LocalsUnset
    /\ IdlePaths

NextWrite == CountAirfoils \/ WriteAirfoilFile

SpecWrite == InitWrite /\ [][NextWrite]_vars

\* ------------------------------------------------- claims on the re-order
\* The (y, then z) ordering of the guards of steps 1 and 2: p is before q.
Before(p, q) == Y(p) < Y(q) \/ (Y(p) = Y(q) /\ Z(p) < Z(q))

\* The vertices are stored (lines 255-258) once the four statements have run.
Stored == cstep = 4
Reapplied == cstep = 8

\* A wing segment with corners rl (root leading), tl (tip leading), tt (tip
\* trailing), rt (root trailing): on the leading and on the trailing edge the
\* root point is before the tip point, on the root and on the tip edge the
\* leading point has the lower x.
ValidSegment(rl, tl, tt, rt) ==
    /\ Before(rl, tl) /\ Before(rt, tt)
    /\ X(rl) < X(rt) /\ X(tl) < X(tt)

\* The strictest reading of a valid segment: both root points at a lower y than
\* both tip points, every leading point at a lower x than every trailing point,
\* the four points in one plane, and the outline rl -> tl -> tt -> rt convex.
Sub(p, q) == <<p[1] - q[1], p[2] - q[2], p[3] - q[3]>>
Cross(p, q) ==
    <<p[2] * q[3] - p[3] * q[2], p[3] * q[1] - p[1] * q[3], p[1] * q[2] - p[2] * q[1]>>
Dot(p, q) == p[1] * q[1] + p[2] * q[2] + p[3] * q[3]
Planar(rl, tl, tt, rt) == Dot(Sub(tl, rl), Cross(Sub(tt, rl), Sub(rt, rl))) = 0
Turn(p, q, r) == (X(q) - X(p)) * (Y(r) - Y(q)) - (Y(q) - Y(p)) * (X(r) - X(q))
Convex(rl, tl, tt, rt) ==
    /\ Turn(rl, tl, tt) < 0 /\ Turn(tl, tt, rt) < 0
    /\ Turn(tt, rt, rl) < 0 /\ Turn(rt, rl, tl) < 0
StrictSegment(rl, tl, tt, rt) ==
    /\ Y(rl) < Y(tl) /\ Y(rl) < Y(tt) /\ Y(rt) < Y(tl) /\ Y(rt) < Y(tt)
    /\ X(rl) < X(rt) /\ X(rl) < X(tt) /\ X(tl) < X(rt) /\ X(tl) < X(tt)
    /\ Planar(rl, tl, tt, rt)
    /\ Convex(rl, tl, tt, rt)

\* The 8 relabelings of the cyclic order rl, tl, tt, rt: 4 rotations, and each
\* of them read backwards.
Relabelings(rl, tl, tt, rt) ==
    { Quad(rl, tl, tt, rt), Quad(tl, tt, rt, rl), Quad(tt, rt, rl, tl), Quad(rt, rl, tl, tt),
      Quad(rl, rt, tt, tl), Quad(tl, rl, rt, tt), Quad(tt, tl, rl, rt), Quad(rt, tt, tl, rl) }

\* The raw quadruple is some relabeling of a valid convex planar segment (the
\* relabelings are closed under inverses, so the segment is among those of raw).
RawIsSegment ==
    \E q \in Relabelings(raw.a, raw.b, raw.c, raw.d) : StrictSegment(q.a, q.b, q.c, q.d)

\* C1: the re-order is idempotent: the four statements applied to the vertices a
\* first application stored leave them unchanged, for every quadruple of points.
C1_Idempotent == Reapplied => v = first

\* C2: every one of the 8 relabelings of a valid convex planar wing segment is
\* re-ordered to the same assignment a = rl, b = tl, c = tt, d = rt.
C2_OrderInvariant ==
    Stored =>
        \A q \in Relabelings(raw.a, raw.b, raw.c, raw.d) :
            StrictSegment(q.a, q.b, q.c, q.d) => v = q

\* C3: the stored vertices have a and d at the root and b and c at the tip: b is
\* not before a and c is not before d in the (y, then z) ordering, whatever the
\* order the four corners of the segment came in.  Stated for the raw
\* quadruples that are a relabeling of a valid convex planar segment, the
\* narrowest reading of "every segment".
C3_RootTip ==
    (Stored /\ RawIsSegment) => (~Before(v.b, v.a) /\ ~Before(v.c, v.d))

\* C4: a valid segment returned in the order (tip trailing, root trailing, root
\* leading, tip leading) is stored as a = root leading, b = tip leading, c = tip
\* trailing, d = root trailing, which is what the same segment returned in the
\* normal order is stored as, and a.y <= b.y.
HalfTurned == ValidSegment(raw.c, raw.d, raw.a, raw.b)
C4_HalfTurn ==
    (Stored /\ HalfTurned) =>
        /\ v = Quad(raw.c, raw.d, raw.a, raw.b)
        /\ v = Canonicalize(Quad(raw.c, raw.d, raw.a, raw.b))
        /\ Y(v.a) <= Y(v.b)
C4_Witness ==
    Stored /\ HalfTurned /\ v # raw /\ Y(raw.b) < Y(raw.a) /\ Y(raw.c) < Y(raw.d)

\* ------------------------------------------------------- claims on load()
Ended == status \in {"returned", "raised"}
\* The places of load() after aircraft.reset() (cpacs.py:382-385).
AfterReset ==
    {"name", "wings", "wing", "symmetry", "segments", "segment", "mid_point",
     "vertices", "airfoil", "airfoil_files", "airfoil_file", "refs"}
Unpopulated(ac) == ac.wing = <<>> /\ DOMAIN ac.refs = {}

\* C5: load is atomic: when a step after the reset fails, the aircraft holds no
\* wing, no segment and no reference quantity of the failed load.
C5_Atomic == (status = "raised" /\ pc \in AfterReset) => Unpopulated(aircraft)

\* C6: every handle load opened is closed when load returns or raises.
C6_HandlesClosed == Ended => (~tixiOpen /\ ~tiglOpen)

\* C7: a source that declares zero wings, with or without a wings node, makes
\* load fail with a ValueError in get_aircraft_wings, the aircraft unpopulated.
WingsQueried ==
    pc \notin {"exists", "open_tixi", "open_tigl", "reset", "name"} /\ ~Running("wings")
C7_ZeroWings ==
    (src.wings = 0 /\ WingsQueried) =>
        (status = "raised" /\ pc = "wings" /\ err = "ValueError" /\ Unpopulated(aircraft))

\* C8: an empty profile name makes get_aircraft_airfoils fail with a ValueError
\* and no other kind of error, and no path is stored for the position.
C8_EmptyName ==
    (status = "raised" /\ pc = "airfoil" /\ name_airfoil = EmptyString) =>
        /\ err = "ValueError"
        /\ LET w == aircraft.wing[WingAt(aircraft, wing_uid)]
           IN  w.segment[SegmentAt(w, segment_uid)].airfoils[position] = NoValue

\* C9: when the file does not exist, load raises FileNotFoundError at its first
\* statement: no handle is opened, tixi and tigl are not called, nothing is
\* written, and the aircraft is as it was passed in (it is not reset).
C9_NotFound ==
    ~src.exists =>
        /\ pc = "exists"
        /\ status \in {"running", "raised"}
        /\ status = "raised" => err = "FileNotFoundError"
        /\ aircraft = given
        /\ ~tixiOpen /\ ~tiglOpen /\ ~touched
        /\ files = {}
C9_Witness ==
    ~src.exists /\ status = "raised" /\ err = "FileNotFoundError" /\ aircraft = PriorAircraft

\* C10: after a successful load the wings are those of the source in the order
\* 1..N, the segments of each wing those of the source in the order 1..M, and
\* at any time every wing but the last one added holds all its segments, each
\* with its vertices and both airfoil paths.
Complete(sg) ==
    /\ sg.vertices.a # NoValue /\ sg.vertices.b # NoValue
    /\ sg.vertices.c # NoValue /\ sg.vertices.d # NoValue
    /\ sg.airfoils.inner # NoValue /\ sg.airfoils.outer # NoValue
InSourceOrder(w, m) ==
    /\ Len(w.segment) = m
    /\ \A j \in 1..m : w.segment[j].ord = j /\ Complete(w.segment[j])
C10_Order ==
    /\ status = "returned" =>
        /\ Len(aircraft.wing) = src.wings
        /\ Len(declared) = src.wings
        /\ \A k \in 1..Len(aircraft.wing) :
            /\ aircraft.wing[k].ord = k
            /\ InSourceOrder(aircraft.wing[k], declared[k])
    /\ (status # "returned" /\ pc \in AfterReset) =>
        \A k \in 1..(Len(aircraft.wing) - 1) :
            /\ aircraft.wing[k].ord = k
            /\ InSourceOrder(aircraft.wing[k], declared[k])
C10_Witness ==
    /\ status = "returned"
    /\ Len(aircraft.wing) = 2
    /\ Len(aircraft.wing[1].segment) = 2
    /\ Len(aircraft.wing[2].segment) = 1

\* The places of load() from aircraft.reset() on, its end included.
SinceReset == AfterReset \cup {"close", "end"}

\* C11: a wing without a readable uID attribute is named WING and its ordinal
\* in two digits, a segment without one is named after its wing, _SEGMENT and
\* its ordinal in two digits; a readable uID is the name as it is; and the
\* steps that name a wing or a segment never fail.
TwoDigits(n) == <<Digit(n \div 10), Digit(n % 10)>>
NamedWing(w) ==
    IF w.ord = src.noUidWing
    THEN w.uid = <<"WING">> \o TwoDigits(w.ord)
    ELSE w.uid = SourceWingUid(w.ord)
NamedSegment(w, sg) ==
    IF sg.ord = src.noUidSegment
    THEN sg.uid = w.uid \o <<"_SEGMENT">> \o TwoDigits(sg.ord)
    ELSE sg.uid = SourceSegmentUid(w.ord, sg.ord)
C11_FallbackNames ==
    /\ pc \in SinceReset =>
          \A k \in 1..Len(aircraft.wing) :
              LET w == aircraft.wing[k] IN
              /\ NamedWing(w)
              /\ \A m \in 1..Len(w.segment) : NamedSegment(w, w.segment[m])
    /\ ~(status = "raised" /\ pc \in {"wing", "segment"})
C11_Witness ==
    /\ status = "returned"
    /\ src.noUidWing = 2 /\ src.noUidSegment = 2
    /\ Len(aircraft.wing) = 2
    /\ aircraft.wing[1].uid = <<"wing", "1">>
    /\ aircraft.wing[2].uid = <<"WING", "0", "2">>
    /\ Len(aircraft.wing[1].segment) = 2
    /\ aircraft.wing[1].segment[1].uid = <<"segment", "1", "1">>
    /\ aircraft.wing[1].segment[2].uid = <<"wing", "1", "_SEGMENT", "0", "2">>
    /\ Len(aircraft.wing[2].segment) = 2
    /\ aircraft.wing[2].segment[2].uid = <<"WING", "0", "2", "_SEGMENT", "0", "2">>

\* C12: get_aircraft_name never fails: whether the model node or only its uID
\* attribute is missing, load goes on to the wings with an identifier assigned.
C12_Placeholder ==
    /\ ~(status = "raised" /\ pc = "name")
    /\ pc \in (SinceReset \ {"name"}) => aircraft.uid \in {"aircraft", "NAME_NOT_FOUND"}

\* The text of a line read back: the value of a piece '%+.7f' printed, in
\* tenths.
IsDigit(c) == \E n \in 0..9 : Digit(n) = c
DigitValue(c) == CHOOSE n \in 0..9 : Digit(n) = c
RECURSIVE NumberOf(_)
NumberOf(ds) ==
    IF ds = <<>> THEN 0
    ELSE 10 * NumberOf(SubSeq(ds, 1, Len(ds) - 1)) + DigitValue(ds[Len(ds)])
Places(line, c) == { k \in 1..Len(line) : line[k] = c }
PlaceOf(line, c) == CHOOSE k \in Places(line, c) : TRUE
\* a sign, one digit or more, a point, seven digits
SignedSevenDecimals(t) ==
    /\ Len(t) >= 10
    /\ t[1] \in {"+", "-"}
    /\ t[Len(t) - 7] = "."
    /\ \A k \in 2..Len(t) : k # Len(t) - 7 => IsDigit(t[k])
ValueOf(t) ==
    LET tenths == 10 * NumberOf(SubSeq(t, 2, Len(t) - 8)) + DigitValue(t[Len(t) - 6])
    IN  IF t[1] = "-" THEN 0 - tenths ELSE tenths
NoFurtherDecimals(t) == \A k \in (Len(t) - 5)..Len(t) : t[k] = "0"
\* a data row: two values in that form, one blank between them
RowHolds(line, x, z) ==
    /\ Cardinality(Places(line, " ")) = 1
    /\ LET blank == PlaceOf(line, " ")
           left == SubSeq(line, 1, blank - 1)
           right == SubSeq(line, blank + 1, Len(line))
       IN  /\ SignedSevenDecimals(left) /\ SignedSevenDecimals(right)
           /\ NoFurtherDecimals(left) /\ NoFurtherDecimals(right)
           /\ ValueOf(left) = x /\ ValueOf(right) = z
\* the name of the profile a file was written for
ProfileOf(e) == IF e.ord = unnamed THEN <<"AIRFOIL">> \o TwoDigits(e.ord)
                ELSE <<"profile", Digit(e.ord)>>
RowsHold(e) ==
    /\ e.path = <<"airfoils", "/", "blade.">> \o ProfileOf(e)
    /\ Len(e.lines) = 1 + Len(pointList.x)
    /\ \A k \in 1..Len(pointList.x) :
          RowHolds(e.lines[k + 1], pointList.x[k], pointList.z[k])
EqualLengths == Len(pointList.x) = Len(pointList.z)

\* C13, as stated: for a profile P with x and z of one length L the file
\* {airfoilsDir}/blade.P is one header line equal to P and L data rows, row k
\* the pair (x_k, z_k), each value signed with 7 decimals.
C13_FileAsStated ==
    EqualLengths =>
        \A n \in 1..Len(written) :
            RowsHold(written[n]) /\ written[n].lines[1] = ProfileOf(written[n])

\* C13, amended: the same, with the header line being the comment mark "# "
\* followed by P (np.savetxt puts its comments string before the header).
C13_FileContent ==
    EqualLengths =>
        \A n \in 1..Len(written) :
            RowsHold(written[n]) /\ written[n].lines[1] = <<"# ">> \o ProfileOf(written[n])
C13_Witness ==
    /\ pc = "refs"
    /\ pointList = [x |-> <<0 - 12, 105>>, z |-> <<105, 0>>]
    /\ Len(written) = 2
    /\ unnamed = 1
    /\ written[1].lines =
          << <<"# ", "AIRFOIL", "0", "1">>,
             <<"-", "1", ".", "2", "0", "0", "0", "0", "0", "0", " ",
               "+", "1", "0", ".", "5", "0", "0", "0", "0", "0", "0">>,
             <<"+", "1", "0", ".", "5", "0", "0", "0", "0", "0", "0", " ",
               "+", "0", ".", "0", "0", "0", "0", "0", "0", "0">> >>

\* C14: after a successful load the rotation center is the geometric center,
\* component by component, and the reference chord is the reference span.
C14_SameLocation ==
    status = "returned" =>
        /\ DOMAIN aircraft.refs = {"gcenter", "rcenter", "area", "span", "chord"}
        /\ \A k \in 1..3 : aircraft.refs.rcenter[k] = aircraft.refs.gcenter[k]
        /\ aircraft.refs.chord = aircraft.refs.span
C14_Witness ==
    /\ status = "returned"
    /\ aircraft.refs.gcenter = <<1, 2, 3>>
    /\ aircraft.refs.area = 7
    /\ aircraft.refs.span = 5

\* C15: an aircraft an earlier load filled holds, after a successful load, the
\* wings and reference quantities of the current source only, and after a
\* failed load neither anything of the earlier model nor anything of the failed
\* load.
OfEarlierLoad(ac) ==
    \/ ac.uid = PriorAircraft.uid
    \/ \E k \in 1..Len(ac.wing) : ac.wing[k].uid = PriorAircraft.wing[1].uid
    \/ \E key \in DOMAIN ac.refs : ac.refs[key] = PriorAircraft.refs[key]
C15_FullyReset ==
    given = PriorAircraft =>
        /\ status = "returned" =>
              /\ ~OfEarlierLoad(aircraft)
              /\ Len(aircraft.wing) = src.wings
              /\ \A k \in 1..Len(aircraft.wing) :
                    Len(aircraft.wing[k].segment) = declared[k]
        /\ status = "raised" =>
              /\ ~OfEarlierLoad(aircraft)
              /\ Unpopulated(aircraft)

\* C16: the path stored for a position of a segment is
\* {airfoilsDir}/blade.{profileName}; positions with one profile name hold one
\* path; no file is written before write_airfoil_files runs; and
\* write_airfoil_files writes the file of each profile once.
Positions == {"inner", "outer"}
SegmentsOf(ac) ==
    UNION { { [wing |-> ac.wing[k].ord, segment |-> ac.wing[k].segment[m]] :
                m \in 1..Len(ac.wing[k].segment) } : k \in 1..Len(ac.wing) }
\* the pairs (profile name, path stored) of the positions that hold a path
Resolved(ac) ==
    UNION { { <<ProfileName(src, e.wing,
                            IF pos = "inner" THEN e.segment.ord ELSE e.segment.ord + 1),
                e.segment.airfoils[pos]>> :
                pos \in { p \in Positions : e.segment.airfoils[p] # NoValue } } :
            e \in SegmentsOf(ac) }
Stage(at) ==
    CASE at = "exists" -> 0
      [] at \in {"open_tixi", "open_tigl"} -> 1
      [] at = "reset" -> 2
      [] at = "name" -> 3
      [] at \in {"wings", "wing", "symmetry", "segments", "segment", "mid_point",
                 "vertices", "airfoil"} -> 4
      [] at \in {"airfoil_files", "airfoil_file"} -> 5
      [] at = "refs" -> 6
      [] at = "close" -> 7
      [] at = "end" -> 8
StageState ==
    /\ Stage(pc) <= 2 => aircraft = given
    /\ Stage(pc) = 3 /\ status = "running" => aircraft = EmptyAircraft
    /\ Stage(pc) <= 4 => (files = {} /\ written = <<>>)
    /\ Stage(pc) \in 3..5 => DOMAIN aircraft.refs = {}
    /\ Stage(pc) \in 2..7 => (tixiOpen /\ tiglOpen)
    /\ Stage(pc) = 8 => (status = "returned" /\ ~tixiOpen)
C17_StageOrder ==
    /\ []StageState
    /\ [][/\ status = "running" /\ pc # "end"
          /\ Stage(pc') \in {Stage(pc), Stage(pc) + 1}]_vars
C17_Witness ==
    /\ status = "returned" /\ Stage(pc) = 8
    /\ Len(aircraft.wing) = 2 /\ Len(written) = 1

\* C18: for each wing the symmetry query is issued before the Wing entry is
\* created: while the query is pending or has failed, the aircraft holds no
\* entry for the wing at hand; and a failing query ends the load.
HasEntry(i) == \E k \in 1..Len(aircraft.wing) : aircraft.wing[k].ord = i
C18_QueryBeforeEntry ==
    /\ pc = "symmetry" => ~HasEntry(idx_wing)
    /\ pc \in {"segments", "segment", "mid_point", "vertices", "airfoil"} => HasEntry(idx_wing)

\* C19: for the segment at hand the kernel is asked for the corners (0,0),
\* (1,0), (1,1), (0,1) in this order, the lower and then the upper point of
\* each once; no wing and no segment is gone through twice; and after a
\* failing query there is no further step.
Asked(i, j) ==
    << [surface |-> "lower", wing |-> i, segment |-> j, eta |-> 0, xsi |-> 0],
       [surface |-> "upper", wing |-> i, segment |-> j, eta |-> 0, xsi |-> 0],
       [surface |-> "lower", wing |-> i, segment |-> j, eta |-> 1, xsi |-> 0],
       [surface |-> "upper", wing |-> i, segment |-> j, eta |-> 1, xsi |-> 0],
       [surface |-> "lower", wing |-> i, segment |-> j, eta |-> 1, xsi |-> 1],
       [surface |-> "upper", wing |-> i, segment |-> j, eta |-> 1, xsi |-> 1],
       [surface |-> "lower", wing |-> i, segment |-> j, eta |-> 0, xsi |-> 1],
       [surface |-> "upper", wing |-> i, segment |-> j, eta |-> 0, xsi |-> 1] >>
QueriesInOrder ==
    /\ pc \in {"mid_point", "vertices", "airfoil"} =>
          /\ Len(queried) <= 8
          /\ queried = SubSeq(Asked(idx_wing, idx_segment), 1, Len(queried))
    /\ pc = "mid_point" /\ status = "running" => Len(queried) = 2 * Len(pts)
    /\ pc = "mid_point" /\ status = "raised" => Len(queried) \in {2 * Len(pts) + 1, 2 * Len(pts) + 2}
    /\ pc \in {"vertices", "airfoil"} => Len(queried) = 8
    /\ pc \in SinceReset =>
          \A k, m \in 1..Len(aircraft.wing) :
              /\ aircraft.wing[k].ord = aircraft.wing[m].ord => k = m
              /\ \A n, o \in 1..Len(aircraft.wing[k].segment) :
                    aircraft.wing[k].segment[n].ord = aircraft.wing[k].segment[o].ord => n = o
C19_NoRetries ==
    /\ []QueriesInOrder
    /\ [][status = "running" /\ (pc = "mid_point" => Len(queried') = Len(queried) + 2
                                                     \/ status' = "raised")]_vars
C19_Witness ==
    /\ status = "raised" /\ pc = "mid_point" /\ err = "TiglException"
    /\ idx_wing = 2 /\ idx_segment = 2
    /\ Len(queried) = 7 /\ Len(pts) = 3

\* C20: the re-order only relabels: after every step the vertices a, b, c, d
\* are the four raw points, each as often as it is among them; steps 1 and 2
\* leave the vertices or exchange a with b, c with d; steps 3 and 4 leave them
\* or exchange a with d, b with c.
Roles == {"a", "b", "c", "d"}
Times(q, p) ==
    (IF q.a = p THEN 1 ELSE 0) + (IF q.b = p THEN 1 ELSE 0)
        + (IF q.c = p THEN 1 ELSE 0) + (IF q.d = p THEN 1 ELSE 0)
SamePoints(q, r) == \A k \in Roles : Times(q, q[k]) = Times(r, q[k])
Exchanged(q, k, m) == [q EXCEPT ![k] = q[m], ![m] = q[k]]
C20_Relabels ==
    /\ []SamePoints(v, raw)
    /\ [][/\ cstep \in {0, 4} => v' \in {v, Exchanged(v, "a", "b")}
          /\ cstep \in {1, 5} => v' \in {v, Exchanged(v, "c", "d")}
          /\ cstep \in {2, 6} => v' \in {v, Exchanged(v, "a", "d")}
          /\ cstep \in {3, 7} => v' \in {v, Exchanged(v, "b", "c")}]_vars
C20_Witness ==
    /\ Stored
    /\ Cardinality({raw.a, raw.b, raw.c, raw.d}) = 4
    /\ v = Quad(raw.c, raw.d, raw.a, raw.b)

\* ----------------------------------------------------- ProjectPaths, calls
\* A new ProjectPaths, and any sequence of calls of add_path and add_subpath.
InitPaths ==
    /\ raw = Quad(<<0, 0, 0>>, <<0, 0, 0>>, <<0, 0, 0>>, <<0, 0, 0>>)
    /\ v = raw /\ first = raw /\ cstep = 0
    /\ IdleLoad
    /\ IdlePaths

AddPath ==
    \E uid \in Uids, path \in PathArgs, uid_groups \in GroupArgs, is_absolute \in BOOLEAN :
        LET r == add_path(abs_paths, groups, uid, path, uid_groups, is_absolute) IN
        /\ abs_paths' = r.abs_paths
        /\ groups' = r.groups
        /\ ended' = r.outcome
        /\ UNCHANGED <<canonVars, loadVars>>

AddSubpath ==
    \E uid_parent \in Uids, uid \in Uids, path \in PathArgs, uid_groups \in GroupArgs :
        LET r == add_subpath(abs_paths, groups, uid_parent, uid, path, uid_groups) IN
        /\ abs_paths' = r.abs_paths
        /\ groups' = r.groups
        /\ ended' = r.outcome
        /\ UNCHANGED <<canonVars, loadVars>>

NextPaths == AddPath \/ AddSubpath

SpecPaths == InitPaths /\ [][NextPaths]_vars

\* C21: the vertices stored after the re-order have a.x <= d.x and b.x <= c.x,
\* for every quadruple of raw points; so have the vertices after a second
\* application.
C21_LeadingFirst ==
    (Stored \/ Reapplied) => (X(v.a) <= X(v.d) /\ X(v.b) <= X(v.c))
C21_Witness ==
    /\ Stored
    /\ X(raw.d) < X(raw.a) /\ X(raw.c) < X(raw.b)
    /\ X(v.a) < X(v.d) /\ X(v.b) < X(v.c)

\* C22: a call of add_path or add_subpath that raises leaves the path table and
\* the group table as they were before the call, and no call changes the path
\* of a UID that is registered.
C22_AllOrNothing ==
    [][/\ ended' # "returned" => (abs_paths' = abs_paths /\ groups' = groups)
       /\ \A u \in DOMAIN abs_paths :
             u \in DOMAIN abs_paths' /\ abs_paths'[u] = abs_paths[u]]_pathVars

=============================================================================
